---- MODULE Spec2Model ----
(***************************************************************************)
(* Sauerpod: a Telegram bot that turns video links into a podcast feed.    *)
(* The model covers the request handlers of src/src/sauer.py (Bouncer,     *)
(* Dispatcher, Downloader, Commander, Podcaster), the storage they share   *)
(* (one table keyed by FeedId and TimestampUtc, one bucket) and the chat   *)
(* notifier.  Every external call (chat API, workflow engine, video        *)
(* library, bucket, table) may raise.                                      *)
(*                                                                         *)
(* Strings the code inspects (startswith, endswith, split, slicing) are    *)
(* sequences of one-character strings; strings it only copies or compares  *)
(* are TLA+ strings.                                                       *)
(***************************************************************************)
EXTENDS Integers, Sequences, FiniteSets, TLC

VARIABLES
    table,       \* the metadata table: a set of rows, at most one per (FeedId, TimestampUtc)
    bucket,      \* the storage bucket: a set of objects, at most one per Key
    now,         \* the wall clock, in whole seconds since EpochBase
    executions,  \* the inputs of the state-machine executions started so far
    workflow,    \* for each execution: the state it is in, its data and the tasks it ran
    downloading, \* the Downloader invocations that found a new video and have not stored it yet
    last,        \* the latest handler invocation: its input, faults, effects and result
    unfinished,  \* the executions that owe their Podcaster step, are in it, or ended in failure
    call         \* the latest call of a helper method: its name, arguments and value

vars == <<table, bucket, now, executions, workflow, downloading, last, unfinished, call>>

-----------------------------------------------------------------------------
(* Bounds *)

MaxTime == 1         \* the clock runs from 0 to MaxTime
MaxExecutions == 2   \* at most this many executions are recorded
MaxDownloading == 1  \* at most this many downloads are under way at once
MaxTitleLen == 30    \* the titles listed have 1 to MaxTitleLen characters
MaxKeywords == 252   \* a video has 0 to MaxKeywords keywords
MaxPodcasting == 2   \* at most this many executions are at their Podcaster step at once

-----------------------------------------------------------------------------
(* Python string operations on sequences of characters *)

\* str.startswith
StartsWith(text, prefix) ==
    /\ Len(text) >= Len(prefix)
    /\ SubSeq(text, 1, Len(prefix)) = prefix

\* str.endswith
EndsWith(text, suffix) ==
    /\ Len(text) >= Len(suffix)
    /\ SubSeq(text, Len(text) - Len(suffix) + 1, Len(text)) = suffix

\* text[:n]
Slice(text, n) == SubSeq(text, 1, IF Len(text) < n THEN Len(text) ELSE n)

\* str.split() without arguments: the maximal runs of non-whitespace characters
RECURSIVE SplitFrom(_, _, _)
SplitFrom(text, i, word) ==
    IF i > Len(text)
    THEN IF word = <<>> THEN <<>> ELSE <<word>>
    ELSE IF text[i] = " "
         THEN IF word = <<>>
              THEN SplitFrom(text, i + 1, <<>>)
              ELSE <<word>> \o SplitFrom(text, i + 1, <<>>)
         ELSE SplitFrom(text, i + 1, Append(word, text[i]))

Split(text) == SplitFrom(text, 1, <<>>)

DigitChars == <<"0", "1", "2", "3", "4", "5", "6", "7", "8", "9">>

\* str(n) of a non-negative int: its decimal digits, most significant first
RECURSIVE Str(_)
Str(n) ==
    IF n < 10 THEN <<DigitChars[n + 1]>>
    ELSE Append(Str(n \div 10), DigitChars[(n % 10) + 1])

\* the code point order of two digit characters
DigitValue(c) == CHOOSE d \in 0..9 : DigitChars[d + 1] = c

\* < on two strings of digits, as the table orders its string sort key
RECURSIVE LexLess(_, _)
LexLess(a, b) ==
    IF b = <<>> THEN FALSE
    ELSE IF a = <<>> THEN TRUE
    ELSE IF Head(a) # Head(b) THEN DigitValue(Head(a)) < DigitValue(Head(b))
    ELSE LexLess(Tail(a), Tail(b))

\* every prefix of a text, the empty one included
Prefixes(text) == { SubSeq(text, 1, n) : n \in 0..Len(text) }

-----------------------------------------------------------------------------
(* Literals of the code and of its tests *)

PREFIX_YOUTU_BE == <<"h", "t", "t", "p", "s", ":", "/", "/", "y", "o", "u", "t", "u", ".", "b", "e">>
PREFIX_WWW_YOUTUBE_COM == <<"h", "t", "t", "p", "s", ":", "/", "/", "w", "w", "w", ".", "y", "o", "u", "t", "u", "b", "e", ".", "c", "o", "m">>
PREFIX_YOUTUBE_COM == <<"h", "t", "t", "p", "s", ":", "/", "/", "y", "o", "u", "t", "u", "b", "e", ".", "c", "o", "m">>
P_SLASH == <<"/">>
P_LIST == <<"/", "l", "i", "s", "t">>
P_DELETE == <<"/", "d", "e", "l", "e", "t", "e">>
P_HELP == <<"/", "h", "e", "l", "p">>
S_FULL == <<"f", "u", "l", "l">>

URL_1 == <<"h", "t", "t", "p", "s", ":", "/", "/", "y", "o", "u", "t", "u", ".", "b", "e", "/", "a">>
URL_2 == <<"h", "t", "t", "p", "s", ":", "/", "/", "w", "w", "w", ".", "y", "o", "u", "t", "u", "b", "e", ".", "c", "o", "m", "/", "w", "a", "t", "c", "h", "?", "v", "=", "a">>
URL_3 == <<"h", "t", "t", "p", "s", ":", "/", "/", "y", "o", "u", "t", "u", "b", "e", ".", "c", "o", "m", "/", "s", "h", "o", "r", "t", "s", "/", "b">>
URL_HTTP == <<"h", "t", "t", "p", ":", "/", "/", "y", "o", "u", "t", "u", ".", "b", "e", "/", "a">>
CMD_HELP == <<"/", "h", "e", "l", "p">>
CMD_LIST == <<"/", "l", "i", "s", "t">>
CMD_LISTFULL == <<"/", "l", "i", "s", "t", "f", "u", "l", "l">>
CMD_DELETE == <<"/", "d", "e", "l", "e", "t", "e">>
CMD_DELETE_A == <<"/", "d", "e", "l", "e", "t", "e", " ", "a">>
CMD_DELETE_B == <<"/", "d", "e", "l", "e", "t", "e", " ", "b">>
CMD_DELETE_A_B == <<"/", "d", "e", "l", "e", "t", "e", " ", "a", " ", "b">>
CMD_DELETENEWEST == <<"/", "d", "e", "l", "e", "t", "e", "n", "e", "w", "e", "s", "t">>
CMD_DELETEOLDEST == <<"/", "d", "e", "l", "e", "t", "e", "o", "l", "d", "e", "s", "t">>
CMD_FOO == <<"/", "f", "o", "o">>
TXT_HELLO == <<"h", "e", "l", "l", "o">>
TXT_SPACE_HELP == <<" ", "/", "h", "e", "l", "p">>

\* the chat id stored in the parameter store (Bouncer.allowed_chat_id), and another one
CHAT_ID_ALLOWED == <<"4", "2">>
CHAT_ID_FORBIDDEN == <<"7">>

\* class Status
Status == {"DOWNLOADER", "PODCASTER", "COMMANDER", "FINISH", "FAILURE"}

-----------------------------------------------------------------------------
(* Bouncer: the webhook entry point *)

\* An incoming webhook event.  body.kind is "absent" (the event has no body),
\* "garbage" (the body is no JSON document) or "json"; a JSON body holds the
\* message's chat id (an int, a string, null, or missing), the sender's first
\* name and the text (each present or missing).
NoDoc ==
    [ chat |-> [kind |-> "missing", int |-> 0, str |-> <<>>],
      first_name |-> [present |-> FALSE, val |-> ""],
      text |-> [present |-> FALSE, val |-> <<>>] ]

ChatIdValues ==
    { [kind |-> "int", int |-> 42, str |-> <<>>],
      [kind |-> "int", int |-> 7, str |-> <<>>],
      [kind |-> "int", int |-> 4, str |-> <<>>],
      [kind |-> "str", int |-> 0, str |-> CHAT_ID_ALLOWED],
      [kind |-> "str", int |-> 0, str |-> CHAT_ID_FORBIDDEN],
      [kind |-> "null", int |-> 0, str |-> <<>>],
      [kind |-> "missing", int |-> 0, str |-> <<>>] }

BouncerTexts == {URL_1, CMD_LIST, TXT_HELLO}

BouncerEvents ==
    { [body |-> [kind |-> k, doc |-> NoDoc]] : k \in {"absent", "garbage"} }
    \cup
    { [body |-> [kind |-> "json",
                 doc |-> [chat |-> c, first_name |-> f, text |-> t]]] :
        c \in ChatIdValues,
        f \in { [present |-> TRUE, val |-> "first_name"], [present |-> FALSE, val |-> ""] },
        t \in { [present |-> TRUE, val |-> x] : x \in BouncerTexts }
              \cup { [present |-> FALSE, val |-> <<>>] } }

\* str() of a JSON value
PyStr(v) ==
    CASE v.kind = "int" -> Str(v.int)
      [] v.kind = "str" -> v.str
      [] v.kind = "null" -> <<"N", "o", "n", "e">>

\* Bouncer._extract_incoming_message: json.loads(event["body"]) raises KeyError
\* without a body and JSONDecodeError on a body that is no JSON
ExtractRaises(event) == event.body.kind # "json"

\* Bouncer._verify_chat_id: reading the chat id raises KeyError when it is missing
VerifyRaisesKeyError(doc) == doc.chat.kind = "missing"

\* VerifyRaisesUnknownChatId with a substring test in place of the comparison
VerifyRaisesUnknownChatId_Substring(doc) ==
    /\ doc.chat.kind # "missing"
    /\ ~StartsWith(CHAT_ID_ALLOWED, PyStr(doc.chat))

\* Bouncer._verify_chat_id: raises UnknownChatIdException
VerifyRaisesUnknownChatId(doc) ==
    /\ doc.chat.kind # "missing"
    /\ PyStr(doc.chat) # CHAT_ID_ALLOWED

\* Bouncer._create_payload raises KeyError when a field it reads is missing
CreatePayloadRaises(doc) ==
    \/ ~doc.first_name.present
    \/ ~doc.text.present
    \/ doc.chat.kind = "missing"

\* CreatePayload when the chat id is forwarded as it came, not as a string
CreatePayload_RawChatId(doc) ==
    [message |-> [sender_name |-> doc.first_name.val,
                  incoming_text |-> doc.text.val,
                  chat_id |-> doc.chat.str]]

\* Bouncer._create_payload
CreatePayload(doc) ==
    [message |-> [sender_name |-> doc.first_name.val,
                  incoming_text |-> doc.text.val,
                  chat_id |-> PyStr(doc.chat)]]

NoPayload ==
    [message |-> [sender_name |-> "", incoming_text |-> <<>>, chat_id |-> <<>>]]

\* json.dumps / json.loads: a document is the value wrapped as text
JsonDumps(v) == [json |-> v]
JsonLoads(d) == d.json

\* Bouncer._get_return_message.  A message is the sequence of the parts its
\* f-string joins.
GetReturnMessage(message) ==
    [statusCode |-> 200, body |-> JsonDumps([message |-> message])]

MSG_STARTED == <<"Event received, state machine started.">>
MSG_403 == <<"403 - private bot">>
MSG_500 == <<"500 - error processing incoming event:", " ", "{event}", "\n\n", "{e}">>

\* BouncerTry with the payload created before the chat id is verified
BouncerTry_PayloadFirst(event, startRaises) ==
    LET doc == event.body.doc
    IN  IF event.body.kind = "absent" THEN "KeyError"
        ELSE IF ExtractRaises(event) THEN "JSONDecodeError"
        ELSE IF CreatePayloadRaises(doc) THEN "KeyError"
        ELSE IF VerifyRaisesUnknownChatId(doc) THEN "UnknownChatIdException"
        ELSE IF startRaises THEN "ClientError"
        ELSE ""

\* The try block of Bouncer.handle_event: the exception that ends it ("" when
\* it runs to its end).  Its statements run in program order: extract, verify,
\* create the payload, start the state machine.
BouncerTry(event, startRaises) ==
    LET doc == event.body.doc
    IN  IF event.body.kind = "absent" THEN "KeyError"
        ELSE IF ExtractRaises(event) THEN "JSONDecodeError"
        ELSE IF VerifyRaisesKeyError(doc) THEN "KeyError"
        ELSE IF VerifyRaisesUnknownChatId(doc) THEN "UnknownChatIdException"
        ELSE IF CreatePayloadRaises(doc) THEN "KeyError"
        ELSE IF startRaises THEN "ClientError"
        ELSE ""

\* BouncerCallsStart when the call is skipped for a text that is no command
BouncerCallsStart_CommandsOnly(event, startRaises) ==
    /\ BouncerTry(event, startRaises) \in {"", "ClientError"}
    /\ StartsWith(event.body.doc.text.val, P_SLASH)

\* whether the try block reached the start_execution call
BouncerCallsStart(event, startRaises) ==
    BouncerTry(event, startRaises) \in {"", "ClientError"}

\* BouncerExcept without the catch-all clause for what boto3 raises
BouncerExcept_NoCatchAll(exc) ==
    IF exc = "UnknownChatIdException" THEN MSG_403
    ELSE IF exc \in {"KeyError", "JSONDecodeError"} THEN MSG_500
    ELSE <<>>

\* The except clauses of Bouncer.handle_event: the message answered to an
\* exception of the try block ("except UnknownChatIdException", then
\* "except Exception", which every other exception class here derives from);
\* <<>> when no clause catches it.
BouncerExcept(exc) ==
    IF exc = "UnknownChatIdException" THEN MSG_403
    ELSE IF exc \in {"KeyError", "JSONDecodeError", "ClientError"} THEN MSG_500
    ELSE <<>>

NoResponse == [statusCode |-> 0, body |-> JsonDumps([message |-> <<>>])]

\* Bouncer.handle_event, as a function of the event and of whether the
\* start_execution call raises: what it returns (or whether an exception leaves
\* it), the calls it made, and the input of the execution it started (if any).
BouncerRun(event, startRaises) ==
    LET exc == BouncerTry(event, startRaises)
        calls == BouncerCallsStart(event, startRaises)
        propagated == exc # "" /\ BouncerExcept(exc) = <<>>
    IN  [ result |->
            IF exc = "" THEN GetReturnMessage(MSG_STARTED)
            ELSE IF propagated THEN NoResponse
            ELSE GetReturnMessage(BouncerExcept(exc)),
          propagated |-> propagated,
          ops |-> IF calls THEN <<"start_execution">> ELSE <<>>,
          started |-> exc = "",
          payload |-> IF calls THEN CreatePayload(event.body.doc) ELSE NoPayload ]

-----------------------------------------------------------------------------
(* Storage: the metadata table and the bucket *)

\* the clock reads EpochBase + now seconds
EpochBase == 1652178739

\* A bucket key, as the pieces its f-string joins: "audio/{chat}/{name}{suffix}"
\* for media and "{chat}{suffix}" for a feed.
MediaPath(chat_id, name, suffix) ==
    [dir |-> "audio/", chat |-> chat_id, name |-> name, suffix |-> suffix]

\* Podcaster.handle_event: feed_name = f"{payload.chat_id}.rss"
FeedName(chat_id) ==
    [dir |-> "", chat |-> chat_id, name |-> <<>>, suffix |-> ".rss"]

NoPath == [dir |-> "", chat |-> <<>>, name |-> <<>>, suffix |-> ""]

NoRow ==
    [ FeedId |-> <<>>, TimestampUtc |-> <<>>, EpisodeId |-> <<>>, Title |-> <<>>,
      Keywords |-> <<>>, BucketPathEpisode |-> NoPath, BucketPathThumbnail |-> NoPath ]

NoObject == [Key |-> NoPath, Body |-> [kind |-> "", episodes |-> <<>>]]

\* Table.put_item: the item replaces the one with the same primary key
\* (partition key FeedId, sort key TimestampUtc)
PutItem(t, row) ==
    { r \in t : ~(r.FeedId = row.FeedId /\ r.TimestampUtc = row.TimestampUtc) }
    \cup {row}

\* DeleteItem when the key names the sort key only
DeleteItem_AnyFeed(t, row) ==
    { r \in t : ~( /\ r.TimestampUtc = row.TimestampUtc
                   /\ r.EpisodeId = row.EpisodeId ) }

\* Table.delete_item(Key={FeedId, TimestampUtc}, ConditionExpression=EpisodeId = id)
DeleteItem(t, row) ==
    { r \in t : ~( /\ r.FeedId = row.FeedId
                   /\ r.TimestampUtc = row.TimestampUtc
                   /\ r.EpisodeId = row.EpisodeId ) }

\* Bucket.upload_file: the object replaces the one under the same key
UploadFile(b, obj) == { o \in b : o.Key # obj.Key } \cup {obj}

\* Bucket.delete_objects with one key
DeleteObjects(b, key) == { o \in b : o.Key # key }

\* Table.query(KeyConditionExpression=FeedId = feed_id, ScanIndexForward=ascending):
\* the rows of the feed in the order of their sort key
RECURSIVE SortAscending(_)
SortAscending(rows) ==
    IF rows = {} THEN <<>>
    ELSE LET first == CHOOSE r \in rows :
                        \A o \in rows \ {r} : LexLess(r.TimestampUtc, o.TimestampUtc)
         IN  <<first>> \o SortAscending(rows \ {first})

Reverse(seq) == [i \in 1..Len(seq) |-> seq[Len(seq) + 1 - i]]

Query(t, feed_id, ascending) ==
    LET asc == SortAscending({ r \in t : r.FeedId = feed_id })
    IN  IF ascending THEN asc ELSE Reverse(asc)

\* the FilterExpression EpisodeId = episode_id applied to a query's items
FilterEpisode(items, episode_id) ==
    SelectSeq(items, LAMBDA r : r.EpisodeId = episode_id)

-----------------------------------------------------------------------------
(* The steps of a handler: its external calls, in program order *)

NoText == [kind |-> "", lines |-> <<>>]

Step(op) == [op |-> op, row |-> NoRow, obj |-> NoObject, text |-> NoText]

\* TelegramNotifier.send: one sendmessage request, then (disable_notification
\* is True in every call) one sendchataction request; each raises on an error
\* status
TelegramSend(text) ==
    << [Step("sendmessage") EXCEPT !.text = text], Step("sendchataction") >>

\* the effect of one step that did not raise
ApplyStep(st, step) ==
    CASE step.op = "put_item" ->
            [st EXCEPT !.table = PutItem(st.table, step.row)]
      [] step.op = "delete_item" ->
            [st EXCEPT !.table = DeleteItem(st.table, step.row)]
      [] step.op = "upload_file" ->
            [st EXCEPT !.bucket = UploadFile(st.bucket, step.obj)]
      [] step.op = "delete_objects" ->
            [st EXCEPT !.bucket = DeleteObjects(st.bucket, step.obj.Key)]
      [] step.op = "sendmessage" ->
            [st EXCEPT !.sent = Append(st.sent, step.text)]
      [] OTHER -> st

RECURSIVE ApplySteps(_, _)
ApplySteps(st, steps) ==
    IF steps = <<>> THEN st
    ELSE ApplySteps(ApplyStep(st, Head(steps)), Tail(steps))

OpNames(steps) == [i \in 1..Len(steps) |-> steps[i].op]

\* the except clause shared by the four workflow handlers:
\*     self.telegram.send(f"Error:\n{e}"); status = Status.FAILURE
ExceptSteps == TelegramSend([kind |-> "error", lines |-> <<>>])

\* A workflow event: kind "ok" carries a message with the three Payload
\* fields; "bad_fields" carries a message Payload(**message) rejects;
\* "no_message" has no "message" key.
NoResult == [status |-> "", message |-> NoPayload.message]

\* HandleEvent when the FAILURE path returns an empty message
HandleEvent_BlankOnFailure(st, event, body, fault, notifyFault) ==
    LET injected == fault \in 1..Len(body.steps)
        raised == injected \/ body.raises
        tryDone == IF injected THEN SubSeq(body.steps, 1, fault - 1) ELSE body.steps
        tryCalled == IF injected THEN SubSeq(body.steps, 1, fault) ELSE body.steps
        notifyRaises == raised /\ notifyFault \in 1..Len(ExceptSteps)
        exceptDone ==
            IF ~raised THEN <<>>
            ELSE IF notifyRaises THEN SubSeq(ExceptSteps, 1, notifyFault - 1)
            ELSE ExceptSteps
        exceptCalled ==
            IF ~raised THEN <<>>
            ELSE IF notifyRaises THEN SubSeq(ExceptSteps, 1, notifyFault)
            ELSE ExceptSteps
        status == IF raised THEN "FAILURE" ELSE body.status
        \* an exception leaves handle_event: the except clause raised, or the
        \* return statement reads an unassigned status or a missing message
        propagated ==
            \/ notifyRaises
            \/ status = ""
            \/ event.kind = "no_message"
        after == ApplySteps(ApplySteps(st, tryDone), exceptDone)
    IN  [ table |-> after.table,
          bucket |-> after.bucket,
          sent |-> after.sent,
          ops |-> OpNames(tryCalled) \o OpNames(exceptCalled),
          raised |-> raised,
          propagated |-> propagated,
          result |-> IF propagated THEN NoResult
                     ELSE [ status |-> status,
                            message |-> IF raised THEN NoPayload.message
                                        ELSE event.message ] ]

\* The common frame of Dispatcher, Downloader, Commander and Podcaster
\* handle_event:
\*     try: <body>; status = ...
\*     except Exception as e: self.telegram.send(...); status = Status.FAILURE
\*     return dict(status=status.name, message=event["message"])
\* body.steps are the external calls of the try block, body.raises tells
\* whether the block raises by itself after them, body.status is the status it
\* assigns ("" when it assigns none).  fault = k > 0 makes the k-th call of the
\* try block raise; notifyFault = k > 0 makes the k-th request of the except
\* clause raise.
HandleEvent(st, event, body, fault, notifyFault) ==
    LET injected == fault \in 1..Len(body.steps)
        raised == injected \/ body.raises
        tryDone == IF injected THEN SubSeq(body.steps, 1, fault - 1) ELSE body.steps
        tryCalled == IF injected THEN SubSeq(body.steps, 1, fault) ELSE body.steps
        notifyRaises == raised /\ notifyFault \in 1..Len(ExceptSteps)
        exceptDone ==
            IF ~raised THEN <<>>
            ELSE IF notifyRaises THEN SubSeq(ExceptSteps, 1, notifyFault - 1)
            ELSE ExceptSteps
        exceptCalled ==
            IF ~raised THEN <<>>
            ELSE IF notifyRaises THEN SubSeq(ExceptSteps, 1, notifyFault)
            ELSE ExceptSteps
        status == IF raised THEN "FAILURE" ELSE body.status
        \* an exception leaves handle_event: the except clause raised, or the
        \* return statement reads an unassigned status or a missing message
        propagated ==
            \/ notifyRaises
            \/ status = ""
            \/ event.kind = "no_message"
        after == ApplySteps(ApplySteps(st, tryDone), exceptDone)
    IN  [ table |-> after.table,
          bucket |-> after.bucket,
          sent |-> after.sent,
          ops |-> OpNames(tryCalled) \o OpNames(exceptCalled),
          raised |-> raised,
          propagated |-> propagated,
          result |-> IF propagated THEN NoResult
                     ELSE [status |-> status, message |-> event.message] ]

-----------------------------------------------------------------------------
(* Workflow events *)

Event(kind, text, chat_id) ==
    [ kind |-> kind,
      message |-> [sender_name |-> "first_name", incoming_text |-> text, chat_id |-> chat_id] ]

\* Payload(**event["message"]) raises KeyError without a message and TypeError
\* on a message whose keys are not the three fields of Payload
PayloadRaises(event) == event.kind # "ok"

RaisingBody == [steps |-> <<>>, raises |-> TRUE, status |-> ""]

-----------------------------------------------------------------------------
(* Dispatcher *)

\* IsVideoUrl without the prefix of the bare host name
IsVideoUrl_TwoPrefixes(text) ==
    \/ StartsWith(text, PREFIX_YOUTU_BE)
    \/ StartsWith(text, PREFIX_WWW_YOUTUBE_COM)

\* Dispatcher._is_video_url
IsVideoUrl(text) ==
    \/ StartsWith(text, PREFIX_YOUTU_BE)
    \/ StartsWith(text, PREFIX_WWW_YOUTUBE_COM)
    \/ StartsWith(text, PREFIX_YOUTUBE_COM)

\* Dispatcher._is_command
IsCommand(text) == StartsWith(text, P_SLASH)

\* DispatcherBody when every message is acknowledged before it is classified
DispatcherBody_AcknowledgeAll(event) ==
    IF PayloadRaises(event) THEN RaisingBody
    ELSE LET text == event.message.incoming_text
             ack == TelegramSend([kind |-> "unknown", lines |-> <<>>])
         IN  [ steps |-> ack,
               raises |-> FALSE,
               status |-> IF IsVideoUrl(text) THEN "DOWNLOADER"
                          ELSE IF IsCommand(text) THEN "COMMANDER"
                          ELSE "FINISH" ]

\* the try block of Dispatcher.handle_event
DispatcherBody(event) ==
    IF PayloadRaises(event) THEN RaisingBody
    ELSE LET text == event.message.incoming_text
         IN  IF IsVideoUrl(text)
             THEN [steps |-> <<>>, raises |-> FALSE, status |-> "DOWNLOADER"]
             ELSE IF IsCommand(text)
             THEN [steps |-> <<>>, raises |-> FALSE, status |-> "COMMANDER"]
             ELSE [ steps |-> TelegramSend([kind |-> "unknown", lines |-> <<>>]),
                    raises |-> FALSE,
                    status |-> "FINISH" ]

-----------------------------------------------------------------------------
(* Downloader *)

TITLE_A == <<"1", "2", "3", "4", "5", "6", "7", "8", "9", "0", "1", "2", "3", "4", "5", "6", "7", "8", "9", "0", "1", "2", "3", "4", "5", "6", "7", "8", "9", "0">>
TITLE_B == <<"a", "b", "c", "d", "e", "f", "g", "h", "i", "j", "k", "l", "m", "n", "o", "p", "q", "r", "s", "t", "u", "v", "w", "x", "y", "z">>

\* yt.keywords: a list of n keywords; the i-th keyword is the numeral of i
Keywords(n) == [i \in 1..n |-> Str(i)]

\* What the video library knows: the videos behind the URLs.  Two URLs name
\* video "a"; every other text names no video.
Videos ==
    { [source_url |-> URL_1, video_id |-> <<"a">>, title |-> TITLE_A, thumbnail_ext |-> ".jpg",
       keywords |-> Keywords(2)],
      [source_url |-> URL_2, video_id |-> <<"a">>, title |-> TITLE_A, thumbnail_ext |-> ".jpg",
       keywords |-> Keywords(2)],
      [source_url |-> URL_3, video_id |-> <<"b">>, title |-> TITLE_B, thumbnail_ext |-> ".webp",
       keywords |-> Keywords(0)] }

\* Downloader._populate_video_information raises when the library rejects the URL
PopulateRaises(url) == \A v \in Videos : v.source_url # url

\* Downloader._populate_video_information
PopulateVideoInformation(url) == CHOOSE v \in Videos : v.source_url = url

\* IsExistingVideo when the filter compares EpisodeId with the URL
IsExistingVideo_ByUrl(t, video_information, chat_id) ==
    FilterEpisode(Query(t, chat_id, TRUE), video_information.source_url) # <<>>

\* Downloader._is_existing_video: the rows of the feed with this EpisodeId
IsExistingVideo(t, video_information, chat_id) ==
    FilterEpisode(Query(t, chat_id, TRUE), video_information.video_id) # <<>>

\* Downloader._download_audio_stream: the path of the downloaded file, less /tmp/
AudioFileName(video_information) ==
    [name |-> video_information.video_id, suffix |-> ".mp4"]

\* Downloader._download_thumbnail: the path of the downloaded file, less /tmp/
ThumbnailFileName(video_information) ==
    [name |-> video_information.video_id \o <<"_", "l", "o", "g", "o">>,
     suffix |-> video_information.thumbnail_ext]

\* Downloader._upload_to_s3: the two uploads and the UploadInformation
UploadInformation(chat_id, audio, thumbnail, clock) ==
    [ path_to_episode |-> MediaPath(chat_id, audio.name, audio.suffix),
      path_to_thumbnail |-> MediaPath(chat_id, thumbnail.name, thumbnail.suffix),
      timestamp_utc |-> EpochBase + clock ]

\* CreateCleansedMetadata when the keywords are stored as they come
CreateCleansedMetadata_AllKeywords(chat_id, upload_information, video_information) ==
    [ FeedId |-> chat_id,
      EpisodeId |-> video_information.video_id,
      Title |-> video_information.title,
      Keywords |-> video_information.keywords,
      BucketPathEpisode |-> upload_information.path_to_episode,
      BucketPathThumbnail |-> upload_information.path_to_thumbnail,
      TimestampUtc |-> Str(upload_information.timestamp_utc) ]

\* Downloader._create_cleansed_metadata
CreateCleansedMetadata(chat_id, upload_information, video_information) ==
    [ FeedId |-> chat_id,
      EpisodeId |-> video_information.video_id,
      Title |-> video_information.title,
      Keywords |-> Slice(video_information.keywords, 250),
      BucketPathEpisode |-> upload_information.path_to_episode,
      BucketPathThumbnail |-> upload_information.path_to_thumbnail,
      TimestampUtc |-> Str(upload_information.timestamp_utc) ]

MediaObject(key, kind) == [Key |-> key, Body |-> [kind |-> kind, episodes |-> <<>>]]

\* DownloadSteps when the metadata is stored before the files are uploaded
DownloadSteps_StoreFirst(upload_information, metadata) ==
    << Step("download_audio_stream"),
       Step("download_thumbnail"),
       [Step("put_item") EXCEPT !.row = metadata],
       [Step("upload_file") EXCEPT
           !.obj = MediaObject(upload_information.path_to_episode, "audio")],
       [Step("upload_file") EXCEPT
           !.obj = MediaObject(upload_information.path_to_thumbnail, "thumbnail")] >>

\* Downloader.handle_event, new video: download the audio, download the
\* thumbnail, upload both (_upload_to_s3), store the metadata
DownloadSteps(upload_information, metadata) ==
    << Step("download_audio_stream"),
       Step("download_thumbnail"),
       [Step("upload_file") EXCEPT
           !.obj = MediaObject(upload_information.path_to_episode, "audio")],
       [Step("upload_file") EXCEPT
           !.obj = MediaObject(upload_information.path_to_thumbnail, "thumbnail")],
       [Step("put_item") EXCEPT !.row = metadata] >>

\* the calls of Downloader.handle_event up to the download of a new video
CheckSteps ==
    <<Step("populate_video_information"), Step("query")>>
    \o TelegramSend([kind |-> "downloading", lines |-> <<>>])

\* the try block of Downloader.handle_event for a video that _is_existing_video
\* did not find; the upload reads the clock
DownloadBody(event, clock) ==
    LET chat_id == event.message.chat_id
        video_information == PopulateVideoInformation(event.message.incoming_text)
        upload_information ==
            UploadInformation(chat_id, AudioFileName(video_information),
                              ThumbnailFileName(video_information), clock)
        metadata == CreateCleansedMetadata(chat_id, upload_information, video_information)
    IN  [ steps |-> CheckSteps \o DownloadSteps(upload_information, metadata),
          raises |-> FALSE,
          status |-> "PODCASTER" ]

\* the try block of Downloader.handle_event
DownloaderBody(event, t, clock) ==
    IF PayloadRaises(event) THEN RaisingBody
    ELSE IF PopulateRaises(event.message.incoming_text)
    THEN [steps |-> <<Step("populate_video_information")>>, raises |-> TRUE, status |-> ""]
    ELSE
    LET chat_id == event.message.chat_id
        video_information == PopulateVideoInformation(event.message.incoming_text)
    IN  IF ~IsExistingVideo(t, video_information, chat_id)
        THEN DownloadBody(event, clock)
        ELSE [ steps |->
                 <<Step("populate_video_information"), Step("query")>>
                 \o TelegramSend([kind |-> "skipping", lines |-> <<>>]),
               raises |-> FALSE,
               status |-> "FINISH" ]

-----------------------------------------------------------------------------
(* Commander *)

\* ConvertToLineItem when a title of 27 characters is shortened as well
ConvertToLineItem_From27(episode, compact) ==
    [ title |-> IF Len(episode.Title) >= 27 /\ compact
                THEN Slice(episode.Title, 25) \o <<".", ".">>
                ELSE episode.Title,
      path |-> episode.BucketPathEpisode,
      episode_id |-> episode.EpisodeId ]

\* Commander._convert_to_line_item: the title shown and the episode linked
ConvertToLineItem(episode, compact) ==
    [ title |-> IF Len(episode.Title) > 27 /\ compact
                THEN Slice(episode.Title, 25) \o <<".", ".">>
                ELSE episode.Title,
      path |-> episode.BucketPathEpisode,
      episode_id |-> episode.EpisodeId ]

\* CmdList when every episode is sent as a message of its own
CmdList_MessagePerEpisode(t, command, chat_id) ==
    LET episodes == Query(t, chat_id, FALSE)
        Line(i) == ConvertToLineItem(episodes[i], ~EndsWith(command, S_FULL))
        RECURSIVE Messages(_)
        Messages(i) ==
            IF i > Len(episodes) THEN <<>>
            ELSE TelegramSend([kind |-> "list", lines |-> <<Line(i)>>]) \o Messages(i + 1)
    IN  <<Step("query")>> \o Messages(1)

\* Commander._cmd_list: one query, one message with a line per episode
CmdList(t, command, chat_id) ==
    LET episodes == Query(t, chat_id, FALSE)
        result == [ i \in 1..Len(episodes) |->
                      ConvertToLineItem(episodes[i], ~EndsWith(command, S_FULL)) ]
    IN  <<Step("query")>> \o TelegramSend([kind |-> "list", lines |-> result])

\* Commander._delete_episode: the calls it makes and the message it returns.
\* next() takes the first row of the feed with this EpisodeId; StopIteration
\* (no such row) is caught and reported.
DeleteEpisode(t, chat_id, episode_id) ==
    LET items == FilterEpisode(Query(t, chat_id, TRUE), episode_id)
    IN  IF items = <<>>
        THEN [ steps |-> <<Step("query")>>,
               message |-> [kind |-> "not_found", lines |-> <<>>] ]
        ELSE LET episode == Head(items)
             IN  [ steps |->
                     << Step("query"),
                        [Step("delete_objects") EXCEPT
                            !.obj = [NoObject EXCEPT !.Key = episode.BucketPathThumbnail]],
                        [Step("delete_objects") EXCEPT
                            !.obj = [NoObject EXCEPT !.Key = episode.BucketPathEpisode]],
                        [Step("delete_item") EXCEPT
                            !.row = [NoRow EXCEPT !.FeedId = chat_id,
                                                  !.TimestampUtc = episode.TimestampUtc,
                                                  !.EpisodeId = episode_id]] >>,
                   message |-> [kind |-> "deleted", lines |-> <<>>] ]

\* CmdDelete when every fragment after the first is taken for an episode id
CmdDelete_Lenient(t, command, chat_id) ==
    LET command_fragments == Split(command)
        command_text == command_fragments[1]
        newest == Query(t, chat_id, FALSE)
        oldest == Query(t, chat_id, TRUE)
        Delete(before, episode_id) ==
            LET d == DeleteEpisode(t, chat_id, episode_id)
            IN  [ steps |-> before \o d.steps \o TelegramSend(d.message),
                  raises |-> FALSE,
                  update_required |-> TRUE ]
    IN  IF command_text = CMD_DELETENEWEST
        THEN IF newest = <<>>
             THEN [steps |-> <<Step("query")>>, raises |-> TRUE, update_required |-> FALSE]
             ELSE Delete(<<Step("query")>>, newest[1].EpisodeId)
        ELSE IF command_text = CMD_DELETEOLDEST
        THEN IF oldest = <<>>
             THEN [steps |-> <<Step("query")>>, raises |-> TRUE, update_required |-> FALSE]
             ELSE Delete(<<Step("query")>>, oldest[1].EpisodeId)
        ELSE IF Len(command_fragments) >= 2
        THEN Delete(<<>>, command_fragments[2])
        ELSE [ steps |-> TelegramSend([kind |-> "dont_understand", lines |-> <<>>]),
               raises |-> FALSE,
               update_required |-> FALSE ]

\* Commander._cmd_delete: its calls, whether it raises (IndexError on an empty
\* feed, which its "except ValueError" does not catch) and what it returns
CmdDelete(t, command, chat_id) ==
    LET command_fragments == Split(command)
        command_text == command_fragments[1]
        newest == Query(t, chat_id, FALSE)
        oldest == Query(t, chat_id, TRUE)
        Delete(before, episode_id) ==
            LET d == DeleteEpisode(t, chat_id, episode_id)
            IN  [ steps |-> before \o d.steps \o TelegramSend(d.message),
                  raises |-> FALSE,
                  update_required |-> TRUE ]
    IN  IF command_text = CMD_DELETENEWEST
        THEN IF newest = <<>>
             THEN [steps |-> <<Step("query")>>, raises |-> TRUE, update_required |-> FALSE]
             ELSE Delete(<<Step("query")>>, newest[1].EpisodeId)
        ELSE IF command_text = CMD_DELETEOLDEST
        THEN IF oldest = <<>>
             THEN [steps |-> <<Step("query")>>, raises |-> TRUE, update_required |-> FALSE]
             ELSE Delete(<<Step("query")>>, oldest[1].EpisodeId)
        ELSE IF Len(command_fragments) = 2
        THEN Delete(<<>>, command_fragments[2])
        ELSE [ steps |-> TelegramSend([kind |-> "dont_understand", lines |-> <<>>]),
               raises |-> FALSE,
               update_required |-> FALSE ]

\* Commander._cmd_help
CmdHelp == TelegramSend([kind |-> "help", lines |-> <<>>])

\* the try block of Commander.handle_event:
\*     if command.startswith("/list"): ...; status = FINISH
\*     if command.startswith("/delete"): ...
\*     elif command.startswith("/help"): ...; status = FINISH
CommanderBody(event, t) ==
    IF PayloadRaises(event) THEN RaisingBody
    ELSE
    LET command == event.message.incoming_text
        chat_id == event.message.chat_id
        list == IF StartsWith(command, P_LIST)
                THEN [steps |-> CmdList(t, command, chat_id), status |-> "FINISH"]
                ELSE [steps |-> <<>>, status |-> ""]
    IN  IF StartsWith(command, P_DELETE)
        THEN LET d == CmdDelete(t, command, chat_id)
             IN  [ steps |-> list.steps \o d.steps,
                   raises |-> d.raises,
                   status |-> IF d.update_required THEN "PODCASTER" ELSE "FINISH" ]
        ELSE IF StartsWith(command, P_HELP)
        THEN [steps |-> list.steps \o CmdHelp, raises |-> FALSE, status |-> "FINISH"]
        ELSE [steps |-> list.steps, raises |-> FALSE, status |-> list.status]

-----------------------------------------------------------------------------
(* Podcaster *)

\* RetrieveMetadata when the rows of another feed are read as well
RetrieveMetadata_AllFeeds(t, chat_id) ==
    Query(t, chat_id, FALSE) \o Query(t, CHAT_ID_FORBIDDEN, FALSE)

\* Podcaster._retrieve_metadata
RetrieveMetadata(t, chat_id) == Query(t, chat_id, FALSE)

\* Podcaster._generate_rss_feed: the feed lists the episodes it is given
GenerateRssFeed(metadata, feed_name) == [kind |-> "rss", episodes |-> metadata]

\* PodcasterBody when the status asks for the Podcaster again
PodcasterBody_Again(event, t) ==
    IF PayloadRaises(event) THEN RaisingBody
    ELSE
    LET chat_id == event.message.chat_id
        metadata == RetrieveMetadata(t, chat_id)
        feed_name == FeedName(chat_id)
        feed_content == GenerateRssFeed(metadata, feed_name)
    IN  [ steps |->
            << Step("query"),
               [Step("upload_file") EXCEPT !.obj = [Key |-> feed_name, Body |-> feed_content]] >>
            \o TelegramSend([kind |-> "feed", lines |-> <<>>]),
          raises |-> FALSE,
          status |-> "PODCASTER" ]

\* the try block of Podcaster.handle_event
PodcasterBody(event, t) ==
    IF PayloadRaises(event) THEN RaisingBody
    ELSE
    LET chat_id == event.message.chat_id
        metadata == RetrieveMetadata(t, chat_id)
        feed_name == FeedName(chat_id)
        feed_content == GenerateRssFeed(metadata, feed_name)
    IN  [ steps |->
            << Step("query"),
               [Step("upload_file") EXCEPT !.obj = [Key |-> feed_name, Body |-> feed_content]] >>
            \o TelegramSend([kind |-> "feed", lines |-> <<>>]),
          raises |-> FALSE,
          status |-> "FINISH" ]

-----------------------------------------------------------------------------
(* The state machine of SauerpodLogicStack *)

\* the states of the definition: three tasks, three choices, two ends
DispatcherTask == "DispatcherTask"
DownloaderTask == "DownloaderTask"
PodcasterTask == "PodcasterTask"
ChoiceDispatcherState == "Dispatching Result?"
ChoiceDownloaderState == "Downloading Result?"
ChoicePodcasterState == "Podcaster?"
Succeeded == "Succeeded"
Failed == "Failed"

Tasks == {DispatcherTask, DownloaderTask, PodcasterTask}

Choices == {ChoiceDispatcherState, ChoiceDownloaderState, ChoicePodcasterState}

\* dispatcher_step.next(choice_dispatcher), downloader_step.next(choice_downloader),
\* podcaster_step.next(choice_podcaster)
TaskNext(task) ==
    CASE task = DispatcherTask -> ChoiceDispatcherState
      [] task = DownloaderTask -> ChoiceDownloaderState
      [] task = PodcasterTask -> ChoicePodcasterState

\* choice_dispatcher
ChoiceDispatcher(status) ==
    IF status = "FORWARD_TO_DOWNLOADER" THEN DownloaderTask
    ELSE IF status = "UNKNOWN_MESSAGE" THEN Succeeded
    ELSE Failed

\* ChoiceDownloader when every other status goes on to the Podcaster
ChoiceDownloader_Forgiving(status) ==
    IF status = "SUCCESS" THEN PodcasterTask
    ELSE IF status = "NO_ACTION" THEN PodcasterTask
    ELSE PodcasterTask

\* choice_downloader
ChoiceDownloader(status) ==
    IF status = "SUCCESS" THEN PodcasterTask
    ELSE IF status = "NO_ACTION" THEN PodcasterTask
    ELSE Failed

\* ChoicePodcaster when every other status goes back to the Downloader
ChoicePodcaster_Retry(status) ==
    IF status = "SUCCESS" THEN Succeeded
    ELSE DownloaderTask

\* choice_podcaster
ChoicePodcaster(status) ==
    IF status = "SUCCESS" THEN Succeeded
    ELSE Failed

ChoiceNext(choice, status) ==
    CASE choice = ChoiceDispatcherState -> ChoiceDispatcher(status)
      [] choice = ChoiceDownloaderState -> ChoiceDownloader(status)
      [] choice = ChoicePodcasterState -> ChoicePodcaster(status)

\* Chain.start(dispatcher_step): an execution begins in the Dispatcher task
\* with the document Bouncer passed as its input
StartExecution(payload) ==
    [ state |-> DispatcherTask,
      data |-> [status |-> "", message |-> payload.message],
      ran |-> <<>> ]

-----------------------------------------------------------------------------
(* The inputs explored *)

DispatcherTexts ==
    UNION { Prefixes(x) :
            x \in { URL_1, URL_2, URL_3, URL_HTTP, CMD_HELP, CMD_LISTFULL, CMD_DELETE_A,
                    CMD_FOO, TXT_HELLO, TXT_SPACE_HELP } }

DownloaderTexts == {URL_1, URL_2, URL_3, TXT_HELLO}

CommanderTexts ==
    { CMD_HELP, CMD_LIST, CMD_LISTFULL, CMD_DELETE, CMD_DELETE_A, CMD_DELETE_B,
      CMD_DELETE_A_B, CMD_DELETENEWEST, CMD_DELETEOLDEST, CMD_FOO }

MalformedEvents ==
    { Event("bad_fields", TXT_HELLO, CHAT_ID_ALLOWED),
      Event("no_message", <<>>, <<>>) }

DispatcherEvents ==
    { Event("ok", x, CHAT_ID_ALLOWED) : x \in DispatcherTexts } \cup MalformedEvents

\* The workflow handlers serve the feed of the allowed chat: Bouncer starts no
\* execution for another chat id.
DownloaderEvents ==
    { Event("ok", x, CHAT_ID_ALLOWED) : x \in DownloaderTexts } \cup MalformedEvents

CommanderEvents ==
    { Event("ok", x, CHAT_ID_ALLOWED) : x \in CommanderTexts } \cup MalformedEvents

PodcasterEvents ==
    { Event("ok", URL_1, CHAT_ID_ALLOWED) } \cup MalformedEvents

-----------------------------------------------------------------------------
(* State machine *)

NoInvocation ==
    [ handler |-> "", event |-> Event("no_message", <<>>, <<>>),
      fault |-> 0, notifyFault |-> 0,
      raised |-> FALSE, propagated |-> FALSE,
      result |-> NoResult, sent |-> <<>>, ops |-> <<>>,
      table0 |-> {}, bucket0 |-> {}, executions0 |-> <<>> ]

NoCall == [name |-> "", args |-> <<>>, value |-> NoRow]

\* The stacks deploy an empty table and an empty bucket.
Deployed == [table |-> {}, bucket |-> {}, sent |-> <<>>]

\* The storage once another feed holds an episode: what a Downloader run for
\* that feed leaves of the deployed storage.
OtherFeedEvent == Event("ok", URL_3, CHAT_ID_FORBIDDEN)

InUse ==
    HandleEvent(Deployed, OtherFeedEvent, DownloaderBody(OtherFeedEvent, {}, 0), 0, 0)

Init ==
    /\ table = InUse.table
    /\ bucket = InUse.bucket
    /\ now = 0
    /\ executions = <<>>
    /\ workflow = <<>>
    /\ downloading = {}
    /\ last = NoInvocation
    /\ unfinished = {}
    /\ call = NoCall

\* a handler's run on the shared storage; t0 and b0 are the table and the
\* bucket as they were when the invocation began
Run(handler, event, body, fault, notifyFault, t0, b0) ==
    LET r == HandleEvent([table |-> table, bucket |-> bucket, sent |-> <<>>],
                         event, body, fault, notifyFault)
    IN  /\ table' = r.table
        /\ bucket' = r.bucket
        /\ last' = [ handler |-> handler, event |-> event,
                     fault |-> fault, notifyFault |-> notifyFault,
                     raised |-> r.raised, propagated |-> r.propagated,
                     result |-> r.result, sent |-> r.sent, ops |-> r.ops,
                     table0 |-> t0, bucket0 |-> b0, executions0 |-> executions ]

\* one invocation of a workflow handler that no other invocation overlaps
Invoke(handler, event, body, fault, notifyFault) ==
    /\ Run(handler, event, body, fault, notifyFault, table, bucket)
    /\ UNCHANGED <<now, executions, workflow, downloading, unfinished, call>>

\* the faults an invocation may meet: any one call of the try block raises,
\* and then any one request of the except clause raises
Faulty(handler, event, body) ==
    \E fault \in 0..Len(body.steps) :
        \E notifyFault \in (IF fault > 0 \/ body.raises THEN 0..Len(ExceptSteps) ELSE {0}) :
            Invoke(handler, event, body, fault, notifyFault)

BouncerHandleEvent ==
    /\ last = NoInvocation
    /\ Len(executions) < MaxExecutions
    /\ \E event \in BouncerEvents, startRaises \in BOOLEAN :
        LET r == BouncerRun(event, startRaises)
        IN  /\ executions' = IF r.started
                             THEN Append(executions, JsonDumps(r.payload))
                             ELSE executions
            /\ last' = [ NoInvocation EXCEPT
                            !.handler = "Bouncer",
                            !.event = event,
                            !.fault = IF startRaises THEN 1 ELSE 0,
                            !.raised = BouncerTry(event, startRaises) # "",
                            !.propagated = r.propagated,
                            !.result = r.result,
                            !.ops = r.ops,
                            !.table0 = table, !.bucket0 = bucket,
                            !.executions0 = executions ]
            /\ workflow' = IF r.started
                           THEN Append(workflow, StartExecution(r.payload))
                           ELSE workflow
            /\ UNCHANGED <<table, bucket, now, downloading, unfinished, call>>

DispatcherHandleEvent ==
    /\ last = NoInvocation
    /\ \E event \in DispatcherEvents :
        Faulty("Dispatcher", event, DispatcherBody(event))

DownloaderHandleEvent ==
    /\ last = NoInvocation
    /\ \E event \in DownloaderEvents :
        Faulty("Downloader", event, DownloaderBody(event, table, now))

\* The Lambdas run side by side (reserved_concurrent_executions=5), and a
\* download takes long: between the query of _is_existing_video and the
\* upload of a Downloader invocation, other invocations run.  The invocation
\* has found the video new, has announced the download and is downloading.
DownloaderBegins ==
    /\ last = NoInvocation
    /\ Cardinality(downloading) < MaxDownloading
    /\ \E event \in DownloaderEvents :
        /\ ~PayloadRaises(event)
        /\ ~PopulateRaises(event.message.incoming_text)
        /\ ~IsExistingVideo(table, PopulateVideoInformation(event.message.incoming_text),
                            event.message.chat_id)
        /\ downloading' = downloading \cup {[event |-> event]}
    /\ UNCHANGED <<table, bucket, now, executions, workflow, last, unfinished, call>>

\* ... and the invocation goes on: it downloads, uploads, stores the metadata
\* and returns; any of these calls may raise.  The snapshots of last are the
\* table and the bucket as the uploads find them.
DownloaderStores ==
    /\ last = NoInvocation
    /\ \E d \in downloading :
        LET body == DownloadBody(d.event, now)
        IN  /\ \E fault \in {0} \cup (Len(CheckSteps) + 1)..Len(body.steps) :
                 \E notifyFault \in (IF fault > 0 THEN 0..Len(ExceptSteps) ELSE {0}) :
                     Run("Downloader", d.event, body, fault, notifyFault, table, bucket)
            /\ downloading' = downloading \ {d}
    /\ UNCHANGED <<now, executions, workflow, unfinished, call>>

CommanderHandleEvent ==
    /\ last = NoInvocation
    /\ \E event \in CommanderEvents :
        Faulty("Commander", event, CommanderBody(event, table))

PodcasterHandleEvent ==
    /\ last = NoInvocation
    /\ \E event \in PodcasterEvents :
        Faulty("Podcaster", event, PodcasterBody(event, table))

\* the invocation ends: its caller has the result (or the exception)
Return ==
    /\ last # NoInvocation
    /\ last' = NoInvocation
    /\ UNCHANGED <<table, bucket, now, executions, workflow, downloading, unfinished, call>>

\* time passes
Tick ==
    /\ last = NoInvocation
    /\ now < MaxTime
    /\ now' = now + 1
    /\ UNCHANGED <<table, bucket, executions, workflow, downloading, last, unfinished, call>>

\* The handlers are separate functions.  Bouncer only starts executions and
\* Dispatcher only classifies a text: neither reads or writes the storage, so
\* each is explored alone; Downloader, Commander and Podcaster share the
\* table and the bucket and are explored together.
NextBouncer == BouncerHandleEvent \/ Return

SpecBouncer == Init /\ [][NextBouncer]_vars

NextDispatcher == DispatcherHandleEvent \/ Return

SpecDispatcher == Init /\ [][NextDispatcher]_vars

Next ==
    \/ DownloaderHandleEvent
    \/ CommanderHandleEvent
    \/ PodcasterHandleEvent
    \/ Return
    \/ Tick

Spec == Init /\ [][Next]_vars

\* the handler a task invokes: lambda_function of the LambdaInvoke
TaskHandler(task) ==
    CASE task = DispatcherTask -> "Dispatcher"
      [] task = DownloaderTask -> "Downloader"
      [] task = PodcasterTask -> "Podcaster"

\* the try block of the handler a task invokes
TaskBody(task, event, t, clock) ==
    CASE task = DispatcherTask -> DispatcherBody(event)
      [] task = DownloaderTask -> DownloaderBody(event, t, clock)
      [] task = PodcasterTask -> PodcasterBody(event, t)

\* An execution after its task ended.  output_path="$.Payload": what the
\* Lambda returned becomes the data of the execution.  No task has a catch
\* clause: a Lambda that raised fails the execution.
AfterTask(run, propagated, result) ==
    IF propagated
    THEN [run EXCEPT !.state = Failed,
                     !.data = NoResult,
                     !.ran = Append(@, run.state)]
    ELSE [run EXCEPT !.state = TaskNext(run.state),
                     !.data = result,
                     !.ran = Append(@, run.state)]

\* a task of execution i invokes its Lambda, which runs the handler
LambdaInvokeOf(i) ==
    /\ last = NoInvocation
    /\ i \in 1..Len(workflow)
    /\ workflow[i].state \in Tasks
    /\ LET run == workflow[i]
           event == [kind |-> "ok", message |-> run.data.message]
           body == TaskBody(run.state, event, table, now)
       IN  \E fault \in 0..Len(body.steps) :
             \E notifyFault \in (IF fault > 0 \/ body.raises
                                 THEN 0..Len(ExceptSteps) ELSE {0}) :
               /\ Run(TaskHandler(run.state), event, body, fault, notifyFault, table, bucket)
               /\ workflow' = [workflow EXCEPT
                                 ![i] = AfterTask(run, last'.propagated, last'.result)]
    /\ UNCHANGED <<now, executions, downloading, unfinished, call>>

LambdaInvoke == \E i \in 1..MaxExecutions : LambdaInvokeOf(i)

\* a choice of execution i compares $.status with its rules
ChoiceOf(i) ==
    /\ i \in 1..Len(workflow)
    /\ workflow[i].state \in Choices
    /\ workflow' = [workflow EXCEPT
                      ![i].state = ChoiceNext(workflow[i].state, workflow[i].data.status)]
    /\ UNCHANGED <<table, bucket, now, executions, downloading, last, unfinished, call>>

Choice == \E i \in 1..MaxExecutions : ChoiceOf(i)

\* The state machine with the handlers as they are.
NextWorkflow == BouncerHandleEvent \/ Return \/ LambdaInvoke \/ Choice

SpecWorkflow == Init /\ [][NextWorkflow]_vars

\* The statuses a Lambda may hand to the state machine: the ones of the
\* handlers and the ones the choices compare with.
AnyStatus ==
    Status \cup {"SUCCESS", "NO_ACTION", "FORWARD_TO_DOWNLOADER", "UNKNOWN_MESSAGE"}

\* a task of execution i whose Lambda returns some status
LambdaReturnsOf(i) ==
    /\ i \in 1..Len(workflow)
    /\ workflow[i].state \in Tasks
    /\ \E status \in AnyStatus :
        workflow' = [workflow EXCEPT
                       ![i] = AfterTask(workflow[i], FALSE,
                                        [status |-> status,
                                         message |-> workflow[i].data.message])]
    /\ UNCHANGED <<table, bucket, now, executions, downloading, last, unfinished, call>>

LambdaReturns == \E i \in 1..MaxExecutions : LambdaReturnsOf(i)

\* a task of execution i whose Lambda raises
LambdaRaisesOf(i) ==
    /\ i \in 1..Len(workflow)
    /\ workflow[i].state \in Tasks
    /\ workflow' = [workflow EXCEPT ![i] = AfterTask(workflow[i], TRUE, NoResult)]
    /\ UNCHANGED <<table, bucket, now, executions, downloading, last, unfinished, call>>

LambdaRaises == \E i \in 1..MaxExecutions : LambdaRaisesOf(i)

\* The state machine whatever its Lambdas return.
NextGraph == BouncerHandleEvent \/ Return \/ LambdaReturns \/ LambdaRaises \/ Choice

SpecGraph == Init /\ [][NextGraph]_vars

\* The service runs every state of every execution it has started.
FairSpecGraph ==
    /\ SpecGraph
    /\ \A i \in 1..MaxExecutions :
        /\ WF_vars(LambdaReturnsOf(i) \/ LambdaRaisesOf(i))
        /\ WF_vars(ChoiceOf(i))

\* Downloader and Commander with downloads that other invocations overlap.
NextOverlap ==
    \/ DownloaderHandleEvent
    \/ DownloaderBegins
    \/ DownloaderStores
    \/ CommanderHandleEvent
    \/ Return
    \/ Tick

SpecOverlap == Init /\ [][NextOverlap]_vars

\* The four workflow handlers, one invocation after the other, on the shared
\* storage.
NextHandlers ==
    \/ DispatcherHandleEvent
    \/ DownloaderHandleEvent
    \/ CommanderHandleEvent
    \/ PodcasterHandleEvent
    \/ Return

SpecHandlers == Init /\ [][NextHandlers]_vars

\* Downloader._create_cleansed_metadata called on its own, as its unit test
\* calls it: the feed, the upload and the video are the caller's
CreateCleansedMetadataCall ==
    /\ call = NoCall
    /\ \E chat_id \in {CHAT_ID_ALLOWED, CHAT_ID_FORBIDDEN}, v \in Videos,
          n \in 0..MaxKeywords, clock \in 0..MaxTime :
        LET video_information == [v EXCEPT !.keywords = Keywords(n)]
            upload_information ==
                UploadInformation(chat_id, AudioFileName(video_information),
                                  ThumbnailFileName(video_information), clock)
        IN  /\ call' = [ name |-> "_create_cleansed_metadata",
                         args |-> <<chat_id, upload_information, video_information>>,
                         value |-> CreateCleansedMetadata(chat_id, upload_information,
                                                          video_information) ]
            /\ UNCHANGED <<table, bucket, now, executions, workflow, downloading, last, unfinished>>

NextCleansed == CreateCleansedMetadataCall

SpecCleansed == Init /\ [][NextCleansed]_vars

\* Downloader or Commander returned PODCASTER: the execution goes on to the
\* Podcaster step, which gets the message the handler returned
GoesOnToPodcaster ==
    /\ last.handler \in {"Downloader", "Commander"}
    /\ ~last.propagated
    /\ last.result.status = "PODCASTER"
    /\ Cardinality({ u \in unfinished : u.stage # "failed" }) < MaxPodcasting
    /\ unfinished' = unfinished \cup
                       { [ stage |-> "owed",
                           event |-> [kind |-> "ok", message |-> last.result.message],
                           table |-> {} ] }
    /\ last' = NoInvocation
    /\ UNCHANGED <<table, bucket, now, executions, workflow, downloading, call>>

\* the last step of an execution returned: with FINISH the execution is
\* done, with FAILURE or an exception it has failed
ExecutionEnds ==
    /\ last # NoInvocation
    /\ last.propagated \/ last.result.status # "PODCASTER"
    /\ unfinished' =
         IF ~last.propagated /\ last.result.status = "FINISH"
         THEN unfinished
         ELSE unfinished \cup { [ stage |-> "failed",
                                  event |-> Event("no_message", <<>>, <<>>),
                                  table |-> {} ] }
    /\ last' = NoInvocation
    /\ UNCHANGED <<table, bucket, now, executions, workflow, downloading, call>>

\* a Podcaster invocation has read the rows of its feed (_retrieve_metadata);
\* other invocations run before it uploads the feed it renders from them
PodcasterBegins ==
    /\ last = NoInvocation
    /\ \E u \in unfinished :
        /\ u.stage = "owed"
        /\ unfinished' = (unfinished \ {u})
                           \cup {[u EXCEPT !.stage = "queried", !.table = table]}
    /\ UNCHANGED <<table, bucket, now, executions, workflow, downloading, last, call>>

\* ... and the invocation goes on: it renders the feed from what it read,
\* uploads it, reports and returns; any of these calls may raise
PodcasterUploads ==
    /\ last = NoInvocation
    /\ \E u \in unfinished :
        /\ u.stage = "queried"
        /\ LET body == PodcasterBody(u.event, u.table)
           IN  \E fault \in {0} \cup 2..Len(body.steps) :
                 \E notifyFault \in (IF fault > 0 THEN 0..Len(ExceptSteps) ELSE {0}) :
                     Run("Podcaster", u.event, body, fault, notifyFault, table, bucket)
        /\ unfinished' = unfinished \ {u}
    /\ UNCHANGED <<now, executions, workflow, downloading, call>>

\* Executions that store episodes and regenerate the feed, side by side.
NextFeed ==
    \/ DownloaderHandleEvent
    \/ GoesOnToPodcaster
    \/ PodcasterBegins
    \/ PodcasterUploads
    \/ ExecutionEnds
    \/ Tick

SpecFeed == Init /\ [][NextFeed]_vars

\* The titles an episode may carry: YouTube decides.
Titles == { Slice(TITLE_A, n) : n \in 1..MaxTitleLen }

\* The storage once the feed of the allowed chat holds an episode as well,
\* under any of the titles.
InitTitles ==
    \E title \in Titles :
        LET event == Event("ok", URL_1, CHAT_ID_ALLOWED)
            stored == HandleEvent([table |-> InUse.table, bucket |-> InUse.bucket, sent |-> <<>>],
                                  event, DownloaderBody(event, InUse.table, 0), 0, 0)
        IN  /\ table = { IF r.FeedId = CHAT_ID_ALLOWED THEN [r EXCEPT !.Title = title] ELSE r :
                           r \in stored.table }
            /\ bucket = stored.bucket
            /\ now = 0
            /\ executions = <<>>
            /\ workflow = <<>>
            /\ downloading = {}
            /\ last = NoInvocation
            /\ unfinished = {}
            /\ call = NoCall

\* Commander lists and deletes what Downloader stored.
NextTitles == DownloaderHandleEvent \/ CommanderHandleEvent \/ Return \/ Tick

SpecTitles == InitTitles /\ [][NextTitles]_vars

TypeOK ==
    /\ now \in 0..MaxTime
    /\ Len(executions) <= MaxExecutions
    /\ last.handler \in {"", "Bouncer", "Dispatcher", "Downloader", "Commander", "Podcaster"}

-----------------------------------------------------------------------------
(* Claims about Bouncer (checked under SpecBouncer) *)

BouncerReturned == last.handler = "Bouncer"

\* the message of the response body
BodyMessage == JsonLoads(last.result.body).message

\* the last invocation started no execution and did not call start_execution
NoExecutionStarted ==
    /\ last.ops = <<>>
    /\ executions = last.executions0

\* the incoming event has a JSON body from which the chat id can be read
ChatIdReadable ==
    /\ last.event.body.kind = "json"
    /\ last.event.body.doc.chat.kind # "missing"

\* the incoming event is well-formed: body, chat id, first name and text are there
WellFormed ==
    /\ ChatIdReadable
    /\ last.event.body.doc.first_name.present
    /\ last.event.body.doc.text.present

\* C1: Bouncer.handle_event returns a response with statusCode 200 for every
\* incoming event, whatever its shape and chat id, also when start_execution
\* raises; no exception leaves it.
C1_AlwaysAnswers200 ==
    BouncerReturned =>
        /\ ~last.propagated
        /\ last.result.statusCode = 200

\* C1 witness: the start of the state machine failed and the answer is 200
C1_Witness ==
    /\ BouncerReturned
    /\ last.fault = 1
    /\ last.ops = <<"start_execution">>
    /\ last.result.statusCode = 200

\* C2: for an event whose chat id, as a string, differs from the allowed chat
\* id, Bouncer starts no execution and answers "403 - private bot".
C2_ForeignChatIdRejected ==
    (BouncerReturned /\ ChatIdReadable
        /\ PyStr(last.event.body.doc.chat) # CHAT_ID_ALLOWED) =>
        /\ NoExecutionStarted
        /\ Head(BodyMessage) = "403 - private bot"

\* C2 witness: a well-formed event of another chat was answered 403
C2_Witness ==
    /\ BouncerReturned
    /\ WellFormed
    /\ last.event.body.doc.chat = [kind |-> "int", int |-> 7, str |-> <<>>]
    /\ NoExecutionStarted
    /\ BodyMessage = MSG_403

Malformed == ~WellFormed

\* C4 as claimed: every malformed event starts no execution and is answered
\* "500 - error processing incoming event:...".
C4_Original ==
    (BouncerReturned /\ Malformed) =>
        /\ NoExecutionStarted
        /\ Head(BodyMessage) = "500 - error processing incoming event:"

\* C4 as amended: every malformed event starts no execution; it is answered
\* "500 - error processing incoming event:..." unless its chat id can be read
\* and differs from the allowed chat id, and then it is answered
\* "403 - private bot".
C4_MalformedEventRejected ==
    (BouncerReturned /\ Malformed) =>
        /\ NoExecutionStarted
        /\ Head(BodyMessage) =
             IF ChatIdReadable /\ PyStr(last.event.body.doc.chat) # CHAT_ID_ALLOWED
             THEN "403 - private bot"
             ELSE "500 - error processing incoming event:"

\* C4 witness: an event of the allowed chat without a text was answered 500
C4_Witness ==
    /\ BouncerReturned
    /\ ChatIdReadable
    /\ PyStr(last.event.body.doc.chat) = CHAT_ID_ALLOWED
    /\ ~last.event.body.doc.text.present
    /\ NoExecutionStarted
    /\ Head(BodyMessage) = "500 - error processing incoming event:"

-----------------------------------------------------------------------------
(* Claims about Dispatcher (checked under SpecDispatcher) *)

DispatcherReturned == last.handler = "Dispatcher"

\* the event carries a message with the three fields of Payload
WellFormedPayload == last.event.kind = "ok"

\* no call of the invocation raised and no exception left it
NoException == ~last.raised /\ ~last.propagated

TheText == last.event.message.incoming_text

\* the text starts with one of the three video prefixes, spelled out
HasVideoPrefix ==
    \/ StartsWith(TheText, <<"h","t","t","p","s",":","/","/","y","o","u","t","u",".","b","e">>)
    \/ StartsWith(TheText, <<"h","t","t","p","s",":","/","/","w","w","w",".","y","o","u","t","u","b","e",".","c","o","m">>)
    \/ StartsWith(TheText, <<"h","t","t","p","s",":","/","/","y","o","u","t","u","b","e",".","c","o","m">>)

HasSlashPrefix == TheText # <<>> /\ TheText[1] = "/"

StorageOps ==
    { i \in 1..Len(last.ops) :
        last.ops[i] \in {"query", "put_item", "delete_item", "upload_file", "delete_objects"} }

StorageUnchanged == table = last.table0 /\ bucket = last.bucket0

\* C6: when no exception occurs Dispatcher sends exactly one chat message if
\* it returns FINISH and none if it returns DOWNLOADER or COMMANDER; with or
\* without an exception it makes no request to the table or the bucket and
\* leaves both unchanged.
C6_DispatcherAcknowledgesOnly ==
    DispatcherReturned =>
        /\ NoException =>
            /\ last.result.status = "FINISH" => Len(last.sent) = 1
            /\ last.result.status \in {"DOWNLOADER", "COMMANDER"} =>
                 /\ last.sent = <<>>
                 /\ last.ops = <<>>
        /\ StorageOps = {}
        /\ StorageUnchanged

\* C6 witness: a text that cannot be routed was acknowledged with one message
C6_Witness ==
    /\ DispatcherReturned
    /\ NoException
    /\ TheText = TXT_HELLO
    /\ last.result.status = "FINISH"
    /\ last.sent = <<[kind |-> "unknown", lines |-> <<>>]>>
    /\ last.ops = <<"sendmessage", "sendchataction">>

-----------------------------------------------------------------------------
(* Claims about Downloader and Commander (checked under Spec) *)

DownloaderReturned == last.handler = "Downloader"

TheChat == last.event.message.chat_id

\* the submitted text is the URL of a video
IsVideo == \E v \in Videos : v.source_url = TheText

TheVideoId == (CHOOSE v \in Videos : v.source_url = TheText).video_id

\* the table held a row of the requesting feed with the video id of the URL
\* when the invocation began
AlreadyPresent ==
    \E r \in last.table0 : r.FeedId = TheChat /\ r.EpisodeId = TheVideoId

\* the downloads, uploads and metadata writes of the last invocation, in order
TransferOps ==
    SelectSeq(last.ops,
              LAMBDA op : op \in {"download_audio_stream", "download_thumbnail",
                                  "upload_file", "put_item"})

\* C7: when the table already holds the video id of the submitted URL for the
\* requesting feed, Downloader.handle_event downloads nothing, uploads nothing,
\* writes no metadata and leaves the bucket and the table unchanged, whether a
\* call raises or not; it returns FINISH when none does.
C7_ExistingVideoSkipped ==
    (DownloaderReturned /\ WellFormedPayload /\ IsVideo /\ AlreadyPresent) =>
        /\ TransferOps = <<>>
        /\ StorageUnchanged
        /\ NoException => last.result.status = "FINISH"

\* C7 witness: a video stored under one URL was submitted again under its
\* other URL and skipped
C7_Witness ==
    /\ DownloaderReturned
    /\ TheText = URL_2
    /\ AlreadyPresent
    /\ NoException
    /\ last.result.status = "FINISH"
    /\ last.sent = <<[kind |-> "skipping", lines |-> <<>>]>>

TheAudioKey ==
    [dir |-> "audio/", chat |-> TheChat, name |-> TheVideoId, suffix |-> ".mp4"]

\* C8: when the video id is not yet in the table for the requesting feed and
\* no call raises, Downloader.handle_event downloads the audio, downloads the
\* thumbnail, uploads the two files and writes the metadata, each once and in
\* this order, and returns PODCASTER; afterwards the bucket holds the audio
\* file and the table holds a row of the feed with the video id.
C8_NewVideoStored ==
    (DownloaderReturned /\ WellFormedPayload /\ IsVideo /\ ~AlreadyPresent
        /\ NoException) =>
        /\ TransferOps = << "download_audio_stream", "download_thumbnail",
                            "upload_file", "upload_file", "put_item" >>
        /\ last.result.status = "PODCASTER"
        /\ \E o \in bucket : o.Key = TheAudioKey /\ o.Body.kind = "audio"
        /\ \E o \in bucket : o.Key.chat = TheChat /\ o.Body.kind = "thumbnail"
        /\ \E r \in table :
            /\ r.FeedId = TheChat
            /\ r.EpisodeId = TheVideoId
            /\ r.BucketPathEpisode = TheAudioKey

\* C8 witness: a second video was stored in a feed that held one already
C8_Witness ==
    /\ DownloaderReturned
    /\ NoException
    /\ last.result.status = "PODCASTER"
    /\ TheText = URL_3
    /\ \E r \in last.table0 : r.FeedId = TheChat
    /\ Cardinality(table) = Cardinality(last.table0) + 1
    /\ Cardinality(bucket) = Cardinality(last.bucket0) + 2

CommanderReturned == last.handler = "Commander"

\* the command is exactly "/list", "/listfull" or "/help"
IsListOrHelp ==
    TheText \in { <<"/","l","i","s","t">>,
                  <<"/","l","i","s","t","f","u","l","l">>,
                  <<"/","h","e","l","p">> }

\* C10: for the commands "/list", "/listfull" and "/help" Commander.handle_event
\* leaves the table and the bucket unchanged, whether a call raises or not;
\* when none raises it returns FINISH and has sent exactly one chat message.
C10_ListAndHelpOnlyAnswer ==
    (CommanderReturned /\ WellFormedPayload /\ IsListOrHelp) =>
        /\ StorageUnchanged
        /\ \A i \in StorageOps : last.ops[i] = "query"
        /\ NoException =>
            /\ last.result.status = "FINISH"
            /\ Len(last.sent) = 1

\* C10 witness: "/listfull" answered with one message listing two episodes
C10_Witness ==
    /\ CommanderReturned
    /\ NoException
    /\ TheText = CMD_LISTFULL
    /\ last.result.status = "FINISH"
    /\ Len(last.sent) = 1
    /\ Len(last.sent[1].lines) = 2
    /\ \E i \in 1..2 : last.sent[1].lines[i].title = TITLE_A

WorkflowReturned ==
    last.handler \in {"Dispatcher", "Downloader", "Commander", "Podcaster"}

\* C9 as claimed: whenever an operation inside handle_event of a workflow
\* handler raises, the handler sends a chat message reporting the error and
\* returns FAILURE, and no exception leaves handle_event.
C9_Original ==
    WorkflowReturned =>
        /\ ~last.propagated
        /\ last.raised =>
            /\ last.result.status = "FAILURE"
            /\ \E i \in 1..Len(last.sent) : last.sent[i].kind = "error"

-----------------------------------------------------------------------------
(* Claims about the delete commands of Commander (checked under Spec) *)

\* the rows of the requesting feed when the invocation began
FeedRows0 == { r \in last.table0 : r.FeedId = TheChat }

\* the number a string of digits denotes
RECURSIVE Number(_)
Number(digits) ==
    IF digits = <<>> THEN 0
    ELSE 10 * Number(SubSeq(digits, 1, Len(digits) - 1)) + DigitValue(digits[Len(digits)])

NewestRows0 ==
    { r \in FeedRows0 :
        \A o \in FeedRows0 : Number(o.TimestampUtc) <= Number(r.TimestampUtc) }

OldestRows0 ==
    { r \in FeedRows0 :
        \A o \in FeedRows0 : Number(r.TimestampUtc) <= Number(o.TimestampUtc) }

TheFragments == Split(TheText)

IsDeleteNewest == TheFragments # <<>> /\ TheFragments[1] = <<"/","d","e","l","e","t","e","n","e","w","e","s","t">>

IsDeleteOldest == TheFragments # <<>> /\ TheFragments[1] = <<"/","d","e","l","e","t","e","o","l","d","e","s","t">>

\* "/delete <id>": a command starting with "/delete", of two fragments, that
\* is neither of the two above
IsDeleteById ==
    /\ StartsWith(TheText, <<"/","d","e","l","e","t","e">>)
    /\ ~IsDeleteNewest
    /\ ~IsDeleteOldest
    /\ Len(TheFragments) = 2

IsDeleteCommand == IsDeleteById \/ IsDeleteNewest \/ IsDeleteOldest

\* the rows the command is aimed at: the newest, the oldest, or the ones with
\* the id given
TargetRows0 ==
    IF IsDeleteNewest THEN NewestRows0
    ELSE IF IsDeleteOldest THEN OldestRows0
    ELSE { r \in FeedRows0 : r.EpisodeId = TheFragments[2] }

\* no call was made to raise, in the try block or in the except clause
NoFault == last.fault = 0 /\ last.notifyFault = 0

\* C11 as claimed (checked under SpecOverlap): for "/delete <id>",
\* "/deletenewest" or "/deleteoldest" whose target episode exists in the
\* requesting feed, when no call raises, Commander.handle_event leaves no row
\* of the feed with the target's episode id, no object under the target's
\* thumbnail key and none under its audio key, and returns PODCASTER.
C11_Original ==
    (CommanderReturned /\ WellFormedPayload /\ IsDeleteCommand
        /\ TargetRows0 # {} /\ NoException) =>
        /\ last.result.status = "PODCASTER"
        /\ \A target \in TargetRows0 :
            /\ target \notin table
            /\ \A r \in table : r.FeedId = TheChat => r.EpisodeId # target.EpisodeId
            /\ \A o \in bucket :
                /\ o.Key # target.BucketPathThumbnail
                /\ o.Key # target.BucketPathEpisode

\* C12 as claimed: for a delete command whose target episode is not found in
\* the requesting feed, Commander.handle_event returns FINISH and leaves the
\* table and the bucket unchanged.
C12_Original ==
    (CommanderReturned /\ WellFormedPayload /\ IsDeleteCommand
        /\ TargetRows0 = {} /\ NoFault) =>
        /\ ~last.propagated
        /\ last.result.status = "FINISH"
        /\ StorageUnchanged

\* the deletions attempted by the last invocation
DeleteOps ==
    SelectSeq(last.ops, LAMBDA op : op \in {"delete_objects", "delete_item"})

\* "/delete" with bad syntax
IsBadDelete ==
    /\ StartsWith(TheText, <<"/","d","e","l","e","t","e">>)
    /\ ~IsDeleteNewest
    /\ ~IsDeleteOldest
    /\ Len(TheFragments) # 2

\* C13: for a command starting with "/delete", other than "/deletenewest" and
\* "/deleteoldest", whose number of fragments is not two, Commander.handle_event
\* attempts no deletion, makes no storage request and leaves the table and the
\* bucket unchanged; when no call raises it returns FINISH and has sent
\* exactly one chat message.
C13_BadDeleteSyntax ==
    (CommanderReturned /\ WellFormedPayload /\ IsBadDelete) =>
        /\ DeleteOps = <<>>
        /\ StorageOps = {}
        /\ StorageUnchanged
        /\ NoException =>
            /\ last.result.status = "FINISH"
            /\ Len(last.sent) = 1

\* C13 witness: "/delete a b" on a feed holding episode "a" was answered with
\* the one message that the command is not understood
C13_Witness ==
    /\ CommanderReturned
    /\ NoException
    /\ TheText = CMD_DELETE_A_B
    /\ \E r \in FeedRows0 : r.EpisodeId = <<"a">>
    /\ last.sent = <<[kind |-> "dont_understand", lines |-> <<>>]>>
    /\ last.result.status = "FINISH"

-----------------------------------------------------------------------------
(* Claims about Podcaster (checked under Spec) *)

PodcasterReturned == last.handler = "Podcaster"

\* the bucket key "<chat_id>.rss"
TheFeedKey == [dir |-> "", chat |-> TheChat, name |-> <<>>, suffix |-> ".rss"]

\* the elements of a sequence
Range(seq) == { seq[i] : i \in 1..Len(seq) }

\* C14: when no call raises, Podcaster.handle_event makes one query and one
\* upload, the bucket then holds under "<chat_id>.rss" a feed rendered from
\* exactly the rows of the table whose FeedId is the payload's chat id, each
\* once, every other object of the bucket and the table are unchanged, and
\* FINISH is returned.
C14_FeedFromRowsOfTheFeed ==
    (PodcasterReturned /\ WellFormedPayload /\ NoException) =>
        /\ last.ops = <<"query", "upload_file", "sendmessage", "sendchataction">>
        /\ \E o \in bucket :
            /\ o.Key = TheFeedKey
            /\ o.Body.kind = "rss"
            /\ Range(o.Body.episodes) = FeedRows0
            /\ Len(o.Body.episodes) = Cardinality(FeedRows0)
        /\ { o \in bucket : o.Key # TheFeedKey } = { o \in last.bucket0 : o.Key # TheFeedKey }
        /\ table = last.table0
        /\ last.result.status = "FINISH"

\* C14 witness: a feed of two episodes was rendered over an earlier feed file
C14_Witness ==
    /\ PodcasterReturned
    /\ NoException
    /\ Cardinality(FeedRows0) = 2
    /\ \E o \in last.bucket0 : o.Key = TheFeedKey /\ Len(o.Body.episodes) < 2
    /\ \E o \in bucket : o.Key = TheFeedKey /\ Len(o.Body.episodes) = 2
    /\ last.result.status = "FINISH"

-----------------------------------------------------------------------------
(* Claims about the statuses and the state machine *)

Started == 1..Len(workflow)

Ended(i) == workflow[i].state \in {"Succeeded", "Failed"}

\* how often a task is among the tasks an execution ran
TimesRan(i, task) ==
    Cardinality({ k \in 1..Len(workflow[i].ran) : workflow[i].ran[k] = task })

\* C16 (checked under FairSpecGraph): whatever statuses the Lambdas return,
\* every execution runs each of the three tasks at most once, hence at most
\* three tasks, and every execution that was started ends in Succeeded or
\* Failed.
C16_LoopFree ==
    /\ [](\A i \in Started :
            /\ \A task \in {"DispatcherTask", "DownloaderTask", "PodcasterTask"} :
                 TimesRan(i, task) <= 1
            /\ Len(workflow[i].ran) <= 3)
    /\ \A i \in 1..MaxExecutions : (i \in Started) ~> (i \in Started /\ Ended(i))

\* C16 witness: an execution ran the three tasks and succeeded
C16_Witness ==
    \E i \in Started :
        /\ workflow[i].ran = <<"DispatcherTask", "DownloaderTask", "PodcasterTask">>
        /\ workflow[i].state = "Succeeded"

\* the step the status-routing table names after a handler's status
TableNext(task, status) ==
    CASE status = "FAILURE" -> "Failed"
      [] status = "FINISH" -> "Succeeded"
      [] task = "DispatcherTask" /\ status = "DOWNLOADER" -> "DownloaderTask"
      [] task = "DispatcherTask" /\ status = "COMMANDER" -> "CommanderTask"
      [] task \in {"DownloaderTask", "CommanderTask"} /\ status = "PODCASTER" -> "PodcasterTask"
      [] OTHER -> "Failed"

\* the choice after the latest task of execution i has been taken
Routed(i) ==
    /\ workflow[i].ran # <<>>
    /\ workflow[i].data.status # ""
    /\ workflow[i].state \notin
         {"Dispatching Result?", "Downloading Result?", "Podcaster?"}

\* C17 as claimed (checked under SpecWorkflow): after a handler returned a
\* status, the step the state machine takes next is the one the
\* status-routing table names.
C17_Original ==
    \A i \in Started :
        Routed(i) =>
            workflow[i].state =
                TableNext(workflow[i].ran[Len(workflow[i].ran)], workflow[i].data.status)

\* the text of the message execution i was started with
TextOf(i) == JsonLoads(executions[i]).message.incoming_text

IsPlainText(text) ==
    /\ ~StartsWith(text, <<"h","t","t","p","s",":","/","/","y","o","u","t","u",".","b","e">>)
    /\ ~StartsWith(text, <<"h","t","t","p","s",":","/","/","w","w","w",".","y","o","u","t","u","b","e",".","c","o","m">>)
    /\ ~StartsWith(text, <<"h","t","t","p","s",":","/","/","y","o","u","t","u","b","e",".","c","o","m">>)
    /\ ~StartsWith(text, <<"/">>)

\* C18 as claimed (checked under SpecWorkflow): an execution for a text that
\* is neither a video URL nor a command, whose Dispatcher acknowledged the
\* text, ends in Succeeded after the Dispatcher task alone.
C18_Original ==
    \A i \in Started :
        (IsPlainText(TextOf(i)) /\ Ended(i) /\ workflow[i].data.status = "FINISH") =>
            /\ workflow[i].state = "Succeeded"
            /\ workflow[i].ran = <<"DispatcherTask">>

\* C19 (checked under SpecGraph): once a task's Lambda has returned FAILURE,
\* the next state of the execution is Failed, it stays there, and the
\* execution runs no further task.
C19_FailureEndsExecution ==
    [][ \A i \in Started :
          (workflow[i].data.status = "FAILURE" /\ workflow'[i] # workflow[i]) =>
              /\ workflow'[i].state = "Failed"
              /\ workflow'[i].ran = workflow[i].ran ]_vars

\* C19 witness: the Downloader task returned FAILURE and the execution failed
\* without running the Podcaster task
C19_Witness ==
    \E i \in Started :
        /\ workflow[i].data.status = "FAILURE"
        /\ workflow[i].ran = <<"DispatcherTask", "DownloaderTask">>
        /\ workflow[i].state = "Failed"

-----------------------------------------------------------------------------
(* Claims about deleting the newest and the oldest episode *)

\* C20 as claimed (checked under SpecOverlap): on a feed with at least one
\* episode, when no call raises, "/deletenewest" removes from the table the
\* row of the feed with the greatest TimestampUtc and "/deleteoldest" the row
\* with the least, and every other row remains.
C20_Original ==
    (CommanderReturned /\ WellFormedPayload /\ FeedRows0 # {} /\ NoException) =>
        /\ IsDeleteNewest => table = last.table0 \ NewestRows0
        /\ IsDeleteOldest => table = last.table0 \ OldestRows0

-----------------------------------------------------------------------------
(* Claims about the list message (checked under SpecTitles) *)

\* the command asks for the compact layout
IsCompact == ~EndsWith(TheText, <<"f","u","l","l">>)

\* the title the list shows for a row
ShownTitle(r) ==
    IF IsCompact /\ Len(r.Title) > 27
    THEN SubSeq(r.Title, 1, 25) \o <<".", ".">>
    ELSE r.Title

\* C21: for a command starting with "/list", when no call raises, the one
\* message Commander sends has as many line items as the feed has episodes,
\* one for each; a line item shows the first 25 characters of the title
\* followed by ".." when the layout is compact (the command does not end in
\* "full") and the title is longer than 27 characters, and the title
\* unchanged otherwise.
C21_ListLineItems ==
    (CommanderReturned /\ WellFormedPayload /\ NoException
        /\ StartsWith(TheText, <<"/","l","i","s","t">>)) =>
        /\ Len(last.sent) = 1
        /\ Len(last.sent[1].lines) = Cardinality(FeedRows0)
        /\ \A r \in FeedRows0 :
            \E i \in 1..Len(last.sent[1].lines) :
                /\ last.sent[1].lines[i].episode_id = r.EpisodeId
                /\ last.sent[1].lines[i].path = r.BucketPathEpisode
                /\ last.sent[1].lines[i].title = ShownTitle(r)

\* C21 witness: "/list" on a feed of two episodes showed a title of 28
\* characters as 25 characters and ".." and a title of 26 characters as it is
C21_Witness ==
    /\ CommanderReturned
    /\ NoException
    /\ TheText = CMD_LIST
    /\ Cardinality(FeedRows0) = 2
    /\ \E r \in FeedRows0 : Len(r.Title) = 28
    /\ \E i, j \in 1..Len(last.sent[1].lines) :
        /\ Len(last.sent[1].lines[i].title) = 27
        /\ SubSeq(last.sent[1].lines[i].title, 26, 27) = <<".", ".">>
        /\ last.sent[1].lines[j].title = TITLE_B

-----------------------------------------------------------------------------
(* Claims about the metadata row (checked under SpecCleansed) *)

MetadataBuilt == call.name = "_create_cleansed_metadata"

\* C22: the row _create_cleansed_metadata returns has as Keywords the first
\* 250 of the video's keywords (all of them when there are fewer), in their
\* order, so never more than 250, and has as FeedId, EpisodeId,
\* BucketPathEpisode and BucketPathThumbnail the chat id, the video id and
\* the two paths it was given.
C22_KeywordsCut ==
    MetadataBuilt =>
        LET chat_id == call.args[1]
            upload_information == call.args[2]
            video_information == call.args[3]
            given == video_information.keywords
            kept == call.value.Keywords
        IN  /\ Len(kept) <= 250
            /\ Len(kept) = IF Len(given) < 250 THEN Len(given) ELSE 250
            /\ \A i \in 1..Len(kept) : kept[i] = given[i]
            /\ call.value.FeedId = chat_id
            /\ call.value.EpisodeId = video_information.video_id
            /\ call.value.BucketPathEpisode = upload_information.path_to_episode
            /\ call.value.BucketPathThumbnail = upload_information.path_to_thumbnail

\* C22 witness: of 251 keywords the row keeps 250
C22_Witness ==
    /\ MetadataBuilt
    /\ Len(call.args[3].keywords) = 251
    /\ Len(call.value.Keywords) = 250
    /\ call.value.Keywords[250] = <<"2", "5", "0">>

-----------------------------------------------------------------------------
(* Claims about the payload (checked under SpecBouncer) *)

\* the last invocation of Bouncer started an execution
BouncerStarted ==
    /\ BouncerReturned
    /\ last.ops = <<"start_execution">>
    /\ last.fault = 0

\* the input of the execution started last
TheInput == JsonLoads(executions[Len(executions)])

-----------------------------------------------------------------------------
(* Claims about the message a handler returns (checked under SpecHandlers) *)

\* C24: whenever Dispatcher, Downloader, Commander or Podcaster returns, with
\* FAILURE or with another status, the message of its result is the message
\* of its input event: sender name, incoming text and chat id are unchanged.
C24_MessagePassedOn ==
    (WorkflowReturned /\ ~last.propagated) =>
        /\ last.result.message = last.event.message
        /\ last.result.message.sender_name = last.event.message.sender_name
        /\ last.result.message.incoming_text = last.event.message.incoming_text
        /\ last.result.message.chat_id = last.event.message.chat_id

\* C24 witness: a Downloader whose upload raised returned FAILURE and the
\* message it was given
C24_Witness ==
    /\ DownloaderReturned
    /\ last.raised
    /\ ~last.propagated
    /\ \E i \in 1..Len(last.ops) : last.ops[i] = "upload_file"
    /\ last.result.status = "FAILURE"
    /\ last.result.message.incoming_text = URL_3
    /\ last.result.message.chat_id = CHAT_ID_ALLOWED

-----------------------------------------------------------------------------
(* Claims about the status Commander returns (checked under Spec) *)

\* C25 as claimed: for every incoming text that starts with "/", whether or
\* not it is one of the "/list", "/delete" and "/help" commands, and with no
\* external call failing, Commander.handle_event returns a result whose
\* status is PODCASTER, FINISH or FAILURE.
C25_Original ==
    (CommanderReturned /\ WellFormedPayload /\ NoFault
        /\ TheText # <<>> /\ TheText[1] = "/") =>
        /\ ~last.propagated
        /\ last.result.status \in {"PODCASTER", "FINISH", "FAILURE"}

-----------------------------------------------------------------------------
(* Claims about the rows and the objects (checked under SpecOverlap) *)

\* C26 as claimed: in every state reached by Downloader invocations that may
\* overlap, the table holds at most one row for each pair of FeedId and
\* EpisodeId.
C26_Original ==
    \A r1, r2 \in table :
        (r1.FeedId = r2.FeedId /\ r1.EpisodeId = r2.EpisodeId) => r1 = r2

\* C27 as claimed: a Downloader invocation that returns PODCASTER leaves every
\* row that was in the table in the table, unchanged, and adds exactly one
\* row, which belongs to the requesting feed.
C27_Original ==
    (DownloaderReturned /\ ~last.propagated /\ last.result.status = "PODCASTER") =>
        /\ last.table0 \subseteq table
        /\ Cardinality(table \ last.table0) = 1
        /\ \A r \in table \ last.table0 : r.FeedId = TheChat

\* C28 as claimed: in every reachable state, also after an invocation that
\* failed partway, each row of the table names in BucketPathEpisode and in
\* BucketPathThumbnail an object that is in the bucket.
C28_Original ==
    \A r \in table :
        /\ \E o \in bucket : o.Key = r.BucketPathEpisode
        /\ \E o \in bucket : o.Key = r.BucketPathThumbnail

\* what the last invocation removed
RemovedRows == last.table0 \ table

RemovedObjects == last.bucket0 \ bucket

\* C29: a command starting with "/delete", whether or not a call raises, adds
\* and changes nothing in the table and the bucket and removes at most one
\* row; whatever it removes belongs to one row of the requesting feed (with
\* the EpisodeId given, for "/delete <id>"): that row, and objects under that
\* row's thumbnail key and audio key.  Rows and objects of other feeds and of
\* other episodes of the feed stay as they are.
C29_DeleteFrame ==
    (CommanderReturned /\ WellFormedPayload
        /\ StartsWith(TheText, <<"/","d","e","l","e","t","e">>)) =>
        /\ table \subseteq last.table0
        /\ bucket \subseteq last.bucket0
        /\ Cardinality(RemovedRows) <= 1
        /\ (RemovedRows # {} \/ RemovedObjects # {}) =>
            \E r \in FeedRows0 :
                /\ IsDeleteById => r.EpisodeId = TheFragments[2]
                /\ RemovedRows \subseteq {r}
                /\ \A o \in RemovedObjects :
                    o.Key \in {r.BucketPathThumbnail, r.BucketPathEpisode}
                /\ \A o \in RemovedObjects : o.Key.chat = TheChat
                /\ \A other \in last.table0 :
                    (other.FeedId # TheChat \/ other.EpisodeId # r.EpisodeId) =>
                        /\ other \in table
                        /\ \A o \in RemovedObjects :
                            o.Key \notin {other.BucketPathThumbnail, other.BucketPathEpisode}

\* C29 witness: "/delete b" on a feed that holds the episodes "a" and "b",
\* while another feed holds "b" as well, removed the one row and two objects
C29_Witness ==
    /\ CommanderReturned
    /\ NoException
    /\ TheText = CMD_DELETE_B
    /\ Cardinality(FeedRows0) = 2
    /\ \E r \in last.table0 : r.FeedId # TheChat /\ r.EpisodeId = <<"b">>
    /\ Cardinality(RemovedRows) = 1
    /\ Cardinality(RemovedObjects) = 2
    /\ \A r \in RemovedRows : r.EpisodeId = <<"b">> /\ r.FeedId = TheChat

-----------------------------------------------------------------------------
(* Claims about the feed after concurrent executions (checked under SpecFeed) *)

\* every execution has ended, and ended with FINISH
AllFinished == last = NoInvocation /\ unfinished = {}

\* C30 as claimed: once every execution for the feed of the allowed chat has
\* ended with its last handler returning FINISH, the object "<chat_id>.rss"
\* lists exactly the episodes whose rows the table then holds for that feed.
C30_Original ==
    AllFinished =>
        LET rows == { r \in table : r.FeedId = <<"4", "2">> }
            feeds == { o \in bucket :
                        o.Key = [dir |-> "", chat |-> <<"4", "2">>, name |-> <<>>, suffix |-> ".rss"] }
        IN  /\ rows # {} => feeds # {}
            /\ \A o \in feeds :
                { e.EpisodeId : e \in Range(o.Body.episodes) } = { r.EpisodeId : r \in rows }

====
